---- MODULE Spec2Model ----
(***************************************************************************)
(* DTN-LTP simulator: the per-node buffer / eviction / selection policy    *)
(* (DTNNode), the contact transmission procedure and the time-stepped      *)
(* engine (DTNSimulator.run), modelled from src/app/DTN_LTP_Simulator.py.  *)
(*                                                                         *)
(* Python objects are references: a Bundle is an entry of the object table *)
(* `bundles`, and buffers, queues and selection lists hold its index (its  *)
(* identity).  bundle_id is a field of the object, as in the code.         *)
(* Times are whole seconds.  Bandwidth is counted in units of 1/8000 Mbps, *)
(* so that size/8/1000 is exact on integers.                               *)
(***************************************************************************)
EXTENDS Integers, Sequences, FiniteSets, TLC

VARIABLES
    config,            \* SimulationConfig of the simulator
    current_time,      \* DTNSimulator.current_time
    nodes,             \* DTNSimulator.nodes: node id -> DTNNode
    bundles,           \* the Bundle objects created so far
    contacts,          \* DTNSimulator.contacts
    sorted_contacts,   \* run(): sorted_contacts
    contact_idx,       \* run(): contact_idx
    metrics_log,       \* DTNSimulator.metrics_log
    pc,                \* position in the harness / run()
    gen,               \* generate_traffic(): num_bundles, bundle_num, return position
    xfer,              \* process_contact(): bundles_ab, bundles_ba still to transmit
    script,            \* bundles the harness still injects by hand before run()
    harness,           \* the scenario of this run and the values its random draws range over
    rng                \* state of the seeded random stream (module random)

vars == << config, current_time, nodes, bundles, contacts, sorted_contacts,
           contact_idx, metrics_log, pc, gen, xfer, script, harness, rng >>

(***************************************************************************)
(* Enumerations and program constants                                      *)
(***************************************************************************)
CRITICAL == 0
HIGH == 1
NORMAL == 2
LOW == 3
QoSLevel == {CRITICAL, HIGH, NORMAL, LOW}

\* size / 8.0 / 1000.0 : one Mbps of budget pays for 8000 bytes
BandwidthUnits == 8000
\* int(current_time) % 100 == 0
MetricsPeriod == 100
\* int(current_time) % 50 == 0
TrafficPeriod == 50

Max(a, b) == IF a >= b THEN a ELSE b
Min(a, b) == IF a <= b THEN a ELSE b

Nodes == 0 .. (config.num_nodes - 1)

(***************************************************************************)
(* Bundle.__lt__ and the heapq algorithms on a heap array of bundle        *)
(* objects.  Positions are 1-based here: parent of p is p \div 2, children *)
(* of p are 2p and 2p+1.                                                   *)
(***************************************************************************)
BundleLt(bs, u, v) ==
    IF bs[u].qos_level # bs[v].qos_level
    THEN bs[u].qos_level < bs[v].qos_level
    ELSE bs[u].deadline < bs[v].deadline

RECURSIVE SiftDown(_, _, _, _, _)
\* heapq._siftdown(heap, startpos, pos) with newitem carried along
SiftDown(bs, heap, startpos, pos, newitem) ==
    IF pos > startpos /\ BundleLt(bs, newitem, heap[pos \div 2])
    THEN SiftDown(bs, [heap EXCEPT ![pos] = heap[pos \div 2]], startpos,
                  pos \div 2, newitem)
    ELSE [heap EXCEPT ![pos] = newitem]

RECURSIVE SiftUpWalk(_, _, _, _, _)
\* the while loop of heapq._siftup: bubble the smaller child up to a leaf
SiftUpWalk(bs, heap, startpos, pos, newitem) ==
    LET endpos == Len(heap)
        childpos == 2 * pos
        rightpos == childpos + 1
        c == IF rightpos <= endpos /\ ~BundleLt(bs, heap[childpos], heap[rightpos])
             THEN rightpos ELSE childpos
    IN  IF childpos <= endpos
        THEN SiftUpWalk(bs, [heap EXCEPT ![pos] = heap[c]], startpos, c, newitem)
        ELSE SiftDown(bs, [heap EXCEPT ![pos] = newitem], startpos, pos, newitem)

SiftUp(bs, heap, pos) == SiftUpWalk(bs, heap, pos, pos, heap[pos])

HeapPush(bs, heap, u) ==
    LET h == Append(heap, u) IN SiftDown(bs, h, 1, Len(h), u)

\* faulty variant: the last leaf is taken instead of the root
HeapPopLast(bs, heap) ==
    [ item |-> heap[Len(heap)], heap |-> SubSeq(heap, 1, Len(heap) - 1) ]

\* heapq.heappop: [item, heap]
HeapPop(bs, heap) ==
    LET lastelt == heap[Len(heap)]
        rest == SubSeq(heap, 1, Len(heap) - 1)
    IN  IF rest = << >>
        THEN [item |-> lastelt, heap |-> rest]
        ELSE [item |-> rest[1], heap |-> SiftUp(bs, [rest EXCEPT ![1] = lastelt], 1)]

RECURSIVE HeapifyFrom(_, _, _)
HeapifyFrom(bs, heap, i) ==
    IF i < 1 THEN heap ELSE HeapifyFrom(bs, SiftUp(bs, heap, i), i - 1)

\* heapq.heapify: for i in reversed(range(n // 2)): _siftup(x, i)
Heapify(bs, heap) == HeapifyFrom(bs, heap, Len(heap) \div 2)

(***************************************************************************)
(* Helpers on sequences and dicts                                          *)
(***************************************************************************)
RECURSIVE SeqSum(_)
SeqSum(s) == IF s = << >> THEN 0 ELSE s[1] + SeqSum(Tail(s))

RECURSIVE SumOver(_, _)
\* sum(f[n] for n in S)
SumOver(f, S) ==
    IF S = {} THEN 0
    ELSE LET x == CHOOSE y \in S : TRUE IN f[x] + SumOver(f, S \ {x})

Range(s) == { s[i] : i \in 1 .. Len(s) }

\* list.remove(x): drop the element at position i
RemoveAt(s, i) == SubSeq(s, 1, i - 1) \o SubSeq(s, i + 1, Len(s))

\* faulty variant: the entry is never deleted
DictKeep(d, k) == d

\* del d[k] / d.pop(k, None)
DictDel(d, k) == [ x \in (DOMAIN d) \ {k} |-> d[x] ]

\* d[k] = v
DictPut(d, k, v) == [ x \in (DOMAIN d) \cup {k} |-> IF x = k THEN v ELSE d[x] ]

EmptyDict == [ x \in {} |-> 0 ]

(***************************************************************************)
(* DTNNode.  A node is the record                                          *)
(*   [node_id, bundle_buffer, bundle_queue, stats, topology_knowledge]     *)
(* and the methods are operators from a node (and the object table) to the *)
(* node (and object table) the call leaves behind.                         *)
(***************************************************************************)
InitStats == [ bundles_transmitted |-> 0, bundles_received |-> 0,
               bundles_dropped |-> 0, total_latency |-> 0, delivery_count |-> 0 ]

NewNode(i) == [ node_id |-> i, bundle_buffer |-> EmptyDict,
                bundle_queue |-> << >>, stats |-> InitStats,
                topology_knowledge |-> {} ]

\* candidates = [b for b in self.bundle_queue if b.qos_level != CRITICAL],
\* as positions of the queue
DropCandidates(bs, queue) ==
    { i \in 1 .. Len(queue) : bs[queue[i]].qos_level # CRITICAL }

\* faulty variant: min instead of max: the candidate with the earliest deadline
DropVictimEarliest(bs, queue) ==
    LET cand == DropCandidates(bs, queue)
        best == { i \in cand : \A j \in cand : bs[queue[i]].deadline <= bs[queue[j]].deadline }
    IN  CHOOSE i \in best : \A j \in best : i <= j

\* max(candidates, key=lambda b: b.deadline): the first of the maximal ones
DropVictimPos(bs, queue) ==
    LET cand == DropCandidates(bs, queue)
        best == { i \in cand : \A j \in cand : bs[queue[j]].deadline <= bs[queue[i]].deadline }
    IN  CHOOSE i \in best : \A j \in best : i <= j

\* list.remove(bundle): the first element that is the object or equals it
\* (dataclass __eq__ compares all fields)
FirstEqualPos(bs, queue, u) ==
    LET eq == { i \in 1 .. Len(queue) : queue[i] = u \/ bs[queue[i]] = bs[u] }
    IN  CHOOSE i \in eq : \A j \in eq : i <= j

DropBundle(bs, node) ==
    IF node.bundle_queue = << >> THEN node
    ELSE IF DropCandidates(bs, node.bundle_queue) = {} THEN node
    ELSE LET u == node.bundle_queue[DropVictimPos(bs, node.bundle_queue)]
             q1 == RemoveAt(node.bundle_queue, FirstEqualPos(bs, node.bundle_queue, u))
         IN  [ node EXCEPT
                 !.bundle_buffer = DictDel(@, bs[u].bundle_id),
                 !.bundle_queue = Heapify(bs, q1),
                 !.stats.bundles_dropped = @ + 1 ]

\* faulty variant: receive_bundle without its duplicate check
ReceiveBundleAgain(bs, node, max_buffer_size, u, t) ==
    LET n1 == IF Cardinality(DOMAIN node.bundle_buffer) >= max_buffer_size
              THEN DropBundle(bs, node) ELSE node
        bs1 == [ bs EXCEPT ![u].visit_history = Append(@, node.node_id) ]
        n2 == [ n1 EXCEPT
                  !.bundle_buffer = DictPut(@, bs[u].bundle_id, u),
                  !.bundle_queue = HeapPush(bs1, @, u),
                  !.stats.bundles_received = @ + 1 ]
        n3 == IF bs[u].destination_id = node.node_id
              THEN [ n2 EXCEPT
                       !.stats.total_latency = @ + (t - bs[u].creation_time),
                       !.stats.delivery_count = @ + 1,
                       !.bundle_buffer = DictDel(@, bs[u].bundle_id) ]
              ELSE n2
    IN  [ node |-> n3, bundles |-> bs1 ]

\* faulty variant: an admission counts a hop
ReceiveBundleCountingHops(bs, node, max_buffer_size, u, t) ==
    IF bs[u].bundle_id \in DOMAIN node.bundle_buffer
    THEN [ node |-> node, bundles |-> bs ]
    ELSE
      LET n1 == IF Cardinality(DOMAIN node.bundle_buffer) >= max_buffer_size
                THEN DropBundle(bs, node) ELSE node
          bs1 == [ bs EXCEPT ![u].visit_history = Append(@, node.node_id),
                              ![u].hop_count = @ + 1 ]
          n2 == [ n1 EXCEPT
                    !.bundle_buffer = DictPut(@, bs[u].bundle_id, u),
                    !.bundle_queue = HeapPush(bs1, @, u),
                    !.stats.bundles_received = @ + 1 ]
          n3 == IF bs[u].destination_id = node.node_id
                THEN [ n2 EXCEPT
                         !.stats.total_latency = @ + (t - bs[u].creation_time),
                         !.stats.delivery_count = @ + 1,
                         !.bundle_buffer = DictDel(@, bs[u].bundle_id) ]
                ELSE n2
      IN  [ node |-> n3, bundles |-> bs1 ]

\* receive_bundle(bundle, current_time): [node, bundles]
ReceiveBundle(bs, node, max_buffer_size, u, t) ==
    IF bs[u].bundle_id \in DOMAIN node.bundle_buffer
    THEN [ node |-> node, bundles |-> bs ]
    ELSE
      LET n1 == IF Cardinality(DOMAIN node.bundle_buffer) >= max_buffer_size
                THEN DropBundle(bs, node) ELSE node
          bs1 == [ bs EXCEPT ![u].visit_history = Append(@, node.node_id) ]
          n2 == [ n1 EXCEPT
                    !.bundle_buffer = DictPut(@, bs[u].bundle_id, u),
                    !.bundle_queue = HeapPush(bs1, @, u),
                    !.stats.bundles_received = @ + 1 ]
          n3 == IF bs[u].destination_id = node.node_id
                THEN [ n2 EXCEPT
                         !.stats.total_latency = @ + (t - bs[u].creation_time),
                         !.stats.delivery_count = @ + 1,
                         !.bundle_buffer = DictDel(@, bs[u].bundle_id) ]
                ELSE n2
      IN  [ node |-> n3, bundles |-> bs1 ]

RECURSIVE SelectLoop(_, _, _, _, _, _)
\* the while loop of select_bundles_for_transmission
SelectLoop(bs, node, peer_id, max_hop_count, available_bandwidth, selected) ==
    IF node.bundle_queue # << >> /\ available_bandwidth > 0
    THEN LET p == HeapPop(bs, node.bundle_queue)
             b == p.item
             take == \/ bs[b].destination_id = peer_id
                     \/ bs[b].hop_count < max_hop_count
             n1 == [ node EXCEPT
                       !.bundle_queue = p.heap,
                       !.bundle_buffer =
                          IF bs[b].bundle_id \in DOMAIN @
                          THEN DictDel(@, bs[b].bundle_id) ELSE @ ]
         IN  SelectLoop(bs, n1, peer_id, max_hop_count,
                        IF take THEN available_bandwidth - bs[b].size
                                ELSE available_bandwidth,
                        IF take THEN Append(selected, b) ELSE selected)
    ELSE [ node |-> node, selected |-> selected ]

\* faulty variant: the selected bundles stay in the sender's buffer
SelectBundlesKeepBuffer(bs, node, peer_id, contact, max_hop_count) ==
    LET r == SelectLoop(bs, node, peer_id, max_hop_count,
                        contact.capacity * BandwidthUnits, << >>)
    IN  [ node |-> [ r.node EXCEPT !.bundle_buffer = node.bundle_buffer ],
          selected |-> r.selected ]

\* faulty variant: the budget starts at twice the contact's capacity
SelectBundlesDoubleBudget(bs, node, peer_id, contact, max_hop_count) ==
    SelectLoop(bs, node, peer_id, max_hop_count,
               2 * contact.capacity * BandwidthUnits, << >>)

\* select_bundles_for_transmission(peer, contact): [node, selected]
SelectBundles(bs, node, peer_id, contact, max_hop_count) ==
    SelectLoop(bs, node, peer_id, max_hop_count,
               contact.capacity * BandwidthUnits, << >>)

(***************************************************************************)
(* DTNSimulator                                                            *)
(***************************************************************************)
NewBundle(id, src, dst, size, created, deadline, qos) ==
    [ bundle_id |-> id, source_id |-> src, destination_id |-> dst,
      size |-> size, creation_time |-> created, deadline |-> deadline,
      qos_level |-> qos, hop_count |-> 0, visit_history |-> << >> ]

\* f"bundle_{self.current_time:.2f}_{bundle_num}" (times are whole seconds)
GeneratedId(t, bundle_num) == << "bundle", t, bundle_num >>

RECURSIVE InsertByStart(_, _)
InsertByStart(sorted, c) ==
    IF sorted = << >> THEN << c >>
    ELSE IF c.start_time < sorted[1].start_time THEN << c >> \o sorted
    ELSE << sorted[1] >> \o InsertByStart(Tail(sorted), c)

RECURSIVE SortedByStart(_)
\* sorted(self.contacts, key=lambda c: c.start_time): stable
SortedByStart(cs) ==
    IF cs = << >> THEN << >>
    ELSE InsertByStart(SortedByStart(SubSeq(cs, 1, Len(cs) - 1)), cs[Len(cs)])

\* _collect_metrics(): the snapshot; a quotient a / b is kept as << a, b >>
Metrics(ns, t) ==
    LET N == DOMAIN ns
        total_delivered == SumOver([ n \in N |-> ns[n].stats.delivery_count ], N)
        total_transmitted == SumOver([ n \in N |-> ns[n].stats.bundles_transmitted ], N)
        total_dropped == SumOver([ n \in N |-> ns[n].stats.bundles_dropped ], N)
    IN  [ timestamp |-> t,
          total_delivered |-> total_delivered,
          total_transmitted |-> total_transmitted,
          total_dropped |-> total_dropped,
          avg_latency |-> << SumOver([ n \in N |-> ns[n].stats.total_latency ], N),
                             Max(total_delivered, 1) >>,
          delivery_ratio |-> << total_delivered, Max(total_transmitted, 1) >>,
          avg_buffer_utilization |->
             << SumOver([ n \in N |-> Cardinality(DOMAIN ns[n].bundle_buffer) ], N),
                Cardinality(N) >> ]

NoGen == [ num_bundles |-> 0, bundle_num |-> 0, ret |-> "none" ]
NoXfer == [ ab |-> << >>, ba |-> << >> ]

\* the contact run() is looking at
CurContact == sorted_contacts[contact_idx + 1]

\* ---- the harness (example_scenarios.py): receive_bundle called by hand ----
HarnessInject ==
    /\ pc = "setup" /\ script # << >>
    /\ LET m == script[1]
           u == Len(bundles) + 1
           bs == Append(bundles, NewBundle(m.bundle_id, m.source_id, m.destination_id,
                                           m.size, m.creation_time, m.deadline,
                                           m.qos_level))
           r == ReceiveBundle(bs, nodes[m.at], config.max_buffer_size, u, m.time)
       IN  /\ nodes' = [ nodes EXCEPT ![m.at] = r.node ]
           /\ bundles' = r.bundles
    /\ script' = Tail(script)
    /\ UNCHANGED << config, current_time, contacts, sorted_contacts, contact_idx,
                    metrics_log, pc, gen, xfer, harness, rng >>

\* ---- generate_traffic() ----
\* num_bundles = random.randint(20, 30), called from position `from`
BeginTraffic(from, ret, num_bundles) ==
    /\ pc = from
    /\ gen' = [ num_bundles |-> num_bundles, bundle_num |-> 0, ret |-> ret ]
    /\ pc' = "traffic"
    /\ UNCHANGED << config, current_time, nodes, bundles, contacts, sorted_contacts,
                    contact_idx, metrics_log, xfer, script, harness >>

\* run(): the initial traffic injection
RunStart(num_bundles) ==
    /\ script = << >>
    /\ BeginTraffic("setup", "sort", num_bundles)

\* one iteration of the for loop of generate_traffic
GenerateBundle(source, dest_draw, size, qos_level, offset) ==
    /\ pc = "traffic"
    /\ LET destination == IF source = dest_draw
                          THEN (dest_draw + 1) % config.num_nodes ELSE dest_draw
           u == Len(bundles) + 1
           bs == Append(bundles,
                        NewBundle(GeneratedId(current_time, gen.bundle_num), source,
                                  destination, size, current_time,
                                  current_time + offset, qos_level))
           r == ReceiveBundle(bs, nodes[source], config.max_buffer_size, u, current_time)
       IN  /\ nodes' = [ nodes EXCEPT ![source] = r.node ]
           /\ bundles' = r.bundles
    /\ IF gen.bundle_num + 1 < gen.num_bundles
       THEN /\ gen' = [ gen EXCEPT !.bundle_num = @ + 1 ]
            /\ pc' = pc
       ELSE /\ gen' = NoGen
            /\ pc' = gen.ret
    /\ UNCHANGED << config, current_time, contacts, sorted_contacts, contact_idx,
                    metrics_log, xfer, script, harness >>

\* ---- run() ----
SortContacts ==
    /\ pc = "sort"
    /\ sorted_contacts' = SortedByStart(contacts)
    /\ contact_idx' = 0
    /\ pc' = "loop"
    /\ UNCHANGED << config, current_time, nodes, bundles, contacts, metrics_log,
                    gen, xfer, script, harness, rng >>

\* while self.current_time < self.config.simulation_time
LoopTest ==
    /\ pc = "loop"
    /\ pc' = IF current_time < config.simulation_time THEN "dispatch" ELSE "finalize"
    /\ UNCHANGED << config, current_time, nodes, bundles, contacts, sorted_contacts,
                    contact_idx, metrics_log, gen, xfer, script, harness, rng >>

\* faulty variant: a contact is looked at only once the clock has passed its start
ContactDueLate ==
    /\ contact_idx < Len(sorted_contacts)
    /\ CurContact.start_time < current_time

ContactDue ==
    /\ contact_idx < Len(sorted_contacts)
    /\ CurContact.start_time <= current_time

\* a due contact whose window is open: process_contact(contact) begins
BeginContact ==
    /\ pc = "dispatch" /\ ContactDue
    /\ CurContact.end_time > current_time
    /\ pc' = "select_ab"
    /\ UNCHANGED << config, current_time, nodes, bundles, contacts, sorted_contacts,
                    contact_idx, metrics_log, gen, xfer, script, harness, rng >>

\* a due contact whose window has closed: contact_idx += 1 only
SkipContact ==
    /\ pc = "dispatch" /\ ContactDue
    /\ ~(CurContact.end_time > current_time)
    /\ contact_idx' = contact_idx + 1
    /\ UNCHANGED << config, current_time, nodes, bundles, contacts, sorted_contacts,
                    metrics_log, pc, gen, xfer, script, harness, rng >>

\* faulty variant: the dispatch loop is left while a contact is still due
EndDispatchEarly ==
    /\ pc = "dispatch"
    /\ pc' = "metrics"
    /\ UNCHANGED << config, current_time, nodes, bundles, contacts, sorted_contacts,
                    contact_idx, metrics_log, gen, xfer, script, harness, rng >>

EndDispatch ==
    /\ pc = "dispatch" /\ ~ContactDue
    /\ pc' = "metrics"
    /\ UNCHANGED << config, current_time, nodes, bundles, contacts, sorted_contacts,
                    contact_idx, metrics_log, gen, xfer, script, harness, rng >>

\* faulty variant: node_a's first selected bundle is delivered before node_b selects
SelectABDelivering ==
    /\ pc = "select_ab"
    /\ LET c == CurContact
           r == SelectBundles(bundles, nodes[c.node_a], c.node_b, c, config.max_hop_count)
       IN  IF r.selected = << >>
           THEN /\ nodes' = [ nodes EXCEPT ![c.node_a] = r.node ]
                /\ xfer' = [ xfer EXCEPT !.ab = r.selected ]
                /\ bundles' = bundles
           ELSE LET rcv == ReceiveBundle(bundles, nodes[c.node_b], config.max_buffer_size,
                                         r.selected[1], current_time)
                    ns == [ nodes EXCEPT ![c.node_a] = r.node ]
                IN  /\ nodes' = [ ns EXCEPT ![c.node_b] = rcv.node,
                                            ![c.node_a].stats.bundles_transmitted = @ + 1 ]
                    /\ bundles' = rcv.bundles
                    /\ xfer' = [ xfer EXCEPT !.ab = Tail(r.selected) ]
    /\ pc' = "select_ba"
    /\ UNCHANGED << config, current_time, contacts, sorted_contacts,
                    contact_idx, metrics_log, gen, script, harness, rng >>

\* ---- process_contact(contact) ----
\* bundles_ab = node_a.select_bundles_for_transmission(node_b, contact)
SelectAB ==
    /\ pc = "select_ab"
    /\ LET c == CurContact
           r == SelectBundles(bundles, nodes[c.node_a], c.node_b, c, config.max_hop_count)
       IN  /\ nodes' = [ nodes EXCEPT ![c.node_a] = r.node ]
           /\ xfer' = [ xfer EXCEPT !.ab = r.selected ]
    /\ pc' = "select_ba"
    /\ UNCHANGED << config, current_time, bundles, contacts, sorted_contacts,
                    contact_idx, metrics_log, gen, script, harness, rng >>

\* bundles_ba = node_b.select_bundles_for_transmission(node_a, contact)
SelectBA ==
    /\ pc = "select_ba"
    /\ LET c == CurContact
           r == SelectBundles(bundles, nodes[c.node_b], c.node_a, c, config.max_hop_count)
       IN  /\ nodes' = [ nodes EXCEPT ![c.node_b] = r.node ]
           /\ xfer' = [ xfer EXCEPT !.ba = r.selected ]
    /\ pc' = "transmit"
    /\ UNCHANGED << config, current_time, bundles, contacts, sorted_contacts,
                    contact_idx, metrics_log, gen, script, harness, rng >>

\* faulty variant: the Bernoulli test is inverted
TransmitOneInverted(from, to, b, r, reliability) ==
    IF r >= reliability
    THEN LET rcv == ReceiveBundle(bundles, nodes[to], config.max_buffer_size, b,
                                  current_time)
             ns == [ nodes EXCEPT ![to] = rcv.node ]
         IN  /\ nodes' = [ ns EXCEPT ![from].stats.bundles_transmitted = @ + 1 ]
             /\ bundles' = rcv.bundles
    ELSE /\ nodes' = [ nodes EXCEPT ![from].stats.bundles_dropped = @ + 1 ]
         /\ bundles' = bundles

\* faulty variant: a bundle lost on the link is put back into the sender's buffer
TransmitOneKeepLost(from, to, b, r, reliability) ==
    IF r < reliability
    THEN LET rcv == ReceiveBundle(bundles, nodes[to], config.max_buffer_size, b,
                                  current_time)
             ns == [ nodes EXCEPT ![to] = rcv.node ]
         IN  /\ nodes' = [ ns EXCEPT ![from].stats.bundles_transmitted = @ + 1 ]
             /\ bundles' = rcv.bundles
    ELSE /\ nodes' = [ nodes EXCEPT ![from].stats.bundles_dropped = @ + 1,
                                    ![from].bundle_buffer =
                                        DictPut(@, bundles[b].bundle_id, b) ]
         /\ bundles' = bundles

\* one iteration of a transmission loop: the bundle b goes from `from` to `to`;
\* r is the value of random.random(), in thousandths
TransmitOne(from, to, b, r, reliability) ==
    IF r < reliability
    THEN LET rcv == ReceiveBundle(bundles, nodes[to], config.max_buffer_size, b,
                                  current_time)
             ns == [ nodes EXCEPT ![to] = rcv.node ]
         IN  /\ nodes' = [ ns EXCEPT ![from].stats.bundles_transmitted = @ + 1 ]
             /\ bundles' = rcv.bundles
    ELSE /\ nodes' = [ nodes EXCEPT ![from].stats.bundles_dropped = @ + 1 ]
         /\ bundles' = bundles

\* for bundle in bundles_ab
TransmitAB(r) ==
    /\ pc = "transmit" /\ xfer.ab # << >>
    /\ TransmitOne(CurContact.node_a, CurContact.node_b, xfer.ab[1], r,
                   CurContact.reliability)
    /\ xfer' = [ xfer EXCEPT !.ab = Tail(@) ]
    /\ UNCHANGED << config, current_time, contacts, sorted_contacts, contact_idx,
                    metrics_log, pc, gen, script, harness >>

\* for bundle in bundles_ba
TransmitBA(r) ==
    /\ pc = "transmit" /\ xfer.ab = << >> /\ xfer.ba # << >>
    /\ TransmitOne(CurContact.node_b, CurContact.node_a, xfer.ba[1], r,
                   CurContact.reliability)
    /\ xfer' = [ xfer EXCEPT !.ba = Tail(@) ]
    /\ UNCHANGED << config, current_time, contacts, sorted_contacts, contact_idx,
                    metrics_log, pc, gen, script, harness >>

\* update_topology_knowledge both ways, then back in run(): contact_idx += 1
Gossip ==
    /\ pc = "transmit" /\ xfer.ab = << >> /\ xfer.ba = << >>
    /\ LET a == CurContact.node_a
           b == CurContact.node_b
           n1 == [ nodes EXCEPT ![a].topology_knowledge = @ \cup {b} ]
       IN  nodes' = [ n1 EXCEPT ![b].topology_knowledge = @ \cup {a} ]
    /\ contact_idx' = contact_idx + 1
    /\ pc' = "dispatch"
    /\ UNCHANGED << config, current_time, bundles, contacts, sorted_contacts,
                    metrics_log, gen, xfer, script, harness, rng >>

\* if int(self.current_time) % 100 == 0: self._collect_metrics()
PeriodicMetrics ==
    /\ pc = "metrics"
    /\ metrics_log' = IF current_time % MetricsPeriod = 0
                      THEN Append(metrics_log, Metrics(nodes, current_time))
                      ELSE metrics_log
    /\ pc' = "periodic"
    /\ UNCHANGED << config, current_time, nodes, bundles, contacts, sorted_contacts,
                    contact_idx, gen, xfer, script, harness, rng >>

\* if int(self.current_time) % 50 == 0: self.generate_traffic()
PeriodicTraffic(num_bundles) ==
    /\ current_time % TrafficPeriod = 0
    /\ BeginTraffic("periodic", "advance", num_bundles)

NoTraffic ==
    /\ pc = "periodic" /\ current_time % TrafficPeriod # 0
    /\ pc' = "advance"
    /\ UNCHANGED << config, current_time, nodes, bundles, contacts, sorted_contacts,
                    contact_idx, metrics_log, gen, xfer, script, harness, rng >>

\* self.current_time += self.config.mobility_update_interval
Advance ==
    /\ pc = "advance"
    /\ current_time' = current_time + config.mobility_update_interval
    /\ pc' = "loop"
    /\ UNCHANGED << config, nodes, bundles, contacts, sorted_contacts, contact_idx,
                    metrics_log, gen, xfer, script, harness, rng >>

\* _finalize_metrics()
Finalize ==
    /\ pc = "finalize"
    /\ metrics_log' = Append(metrics_log, Metrics(nodes, current_time))
    /\ pc' = "done"
    /\ UNCHANGED << config, current_time, nodes, bundles, contacts, sorted_contacts,
                    contact_idx, gen, xfer, script, harness, rng >>

(***************************************************************************)
(* Bounds of the model, and the runs it covers.  A run is either main.py's *)
(* (construct, run) or one of example_scenarios.py's (construct, replace   *)
(* the contact list, inject bundles by hand, run).                         *)
(***************************************************************************)
MaxNodes == 2
MaxBuffer == 2
MaxBatch == 2

Config(n, buf, horizon, step) ==
    [ num_nodes |-> n, max_buffer_size |-> buf, max_hop_count |-> 10,
      simulation_time |-> horizon, mobility_update_interval |-> step,
      random_seed |-> 0 ]

Contact(a, b, start, end, capacity, reliability) ==
    [ node_a |-> a, node_b |-> b, start_time |-> start, end_time |-> end,
      capacity |-> capacity, reliability |-> reliability ]

Manual(k, at, dst, created, deadline, qos, size, time) ==
    [ bundle_id |-> << "manual", k, 0 >>, at |-> at, source_id |-> at,
      destination_id |-> dst, size |-> size, creation_time |-> created,
      deadline |-> deadline, qos_level |-> qos, time |-> time ]

\* random.random() in thousandths: a low and a high draw
UnitDraws == {0, 995}

\* contact lists of the plain runs (as constructed they are not sorted): windows met
\* at t = 0 and at t = 25, a window closed before it is looked at, a narrow and a
\* lossy link, two contacts in one step
PlainSchedules(n) ==
    IF n < 2 THEN { << >> }
    ELSE { << >>,
           << Contact(0, 1, 20, 30, 100, 1000), Contact(0, 1, 0, 10, 100, 1000) >>,
           << Contact(0, 1, 0, 10, 1, 990), Contact(0, 1, 10, 20, 100, 1000) >>,
           << Contact(0, 1, 20, 30, 100, 990), Contact(0, 1, 20, 30, 1, 1000) >> }

PlainHarness ==
    [ scenario |-> "plain", batch |-> 1 .. MaxBatch, qos |-> {CRITICAL, LOW},
      offset |-> {50, 60}, size |-> {4096}, unit |-> UnitDraws ]

InitCommon ==
    /\ current_time = 0
    /\ nodes = [ i \in Nodes |-> NewNode(i) ]
    /\ bundles = << >>
    /\ sorted_contacts = << >>
    /\ contact_idx = 0
    /\ metrics_log = << >>
    /\ pc = "setup"
    /\ gen = NoGen
    /\ xfer = NoXfer
    /\ rng = 0

\* main.py: a simulator as constructed, then run()
InitPlain ==
    /\ \E n \in 1 .. MaxNodes, buf \in 1 .. MaxBuffer : config = Config(n, buf, 50, 25)
    /\ contacts \in PlainSchedules(config.num_nodes)
    /\ script = << >>
    /\ harness = PlainHarness
    /\ InitCommon

\* example_scenarios.py style: N + 1 bundles of one non-CRITICAL tier, deadlines
\* increasing, injected by hand at node 0 (destination node 1) with capacity N
OverflowScript(N, qos) ==
    [ k \in 1 .. (N + 1) |-> Manual(k, 0, 1, 0, 100 + k, qos, 1000, 0) ]

InitOverflow ==
    /\ \E buf \in 1 .. MaxBuffer : config = Config(2, buf, 50, 25)
    /\ contacts = << Contact(0, 1, 20, 30, 100, 1000) >>
    /\ \E qos \in {HIGH, NORMAL, LOW} : script = OverflowScript(config.max_buffer_size, qos)
    /\ harness = [ scenario |-> "overflow", batch |-> {1}, qos |-> {LOW},
                   offset |-> {50}, size |-> {4096}, unit |-> {0} ]
    /\ InitCommon

\* example_qos_comparison: 2 nodes, capacity 5, six bundles injected at node 0
QoSScript ==
    << Manual(1, 0, 1, 5, 50, CRITICAL, 1000, 5), Manual(2, 0, 1, 5, 50, HIGH, 1000, 5),
       Manual(3, 0, 1, 5, 50, NORMAL, 1000, 5), Manual(4, 0, 1, 5, 50, LOW, 1000, 5),
       Manual(5, 0, 1, 5, 50, LOW, 1000, 5), Manual(6, 0, 1, 5, 50, LOW, 1000, 5) >>

InitQoS ==
    /\ config = Config(2, 5, 50, 5)
    /\ contacts = << Contact(0, 1, 10, 40, 100, 950) >>
    /\ script = QoSScript
    /\ harness = [ scenario |-> "qos", batch |-> {1}, qos |-> {CRITICAL, LOW},
                   offset |-> {50}, size |-> {4096}, unit |-> UnitDraws ]
    /\ InitCommon

\* example_basic_network with both links reliable: 3 nodes in a chain, one bundle
\* injected at node 0 for node 2
ChainScript == << Manual(1, 0, 2, 0, 100, HIGH, 1024, 0) >>

InitChain ==
    /\ config = Config(3, MaxBuffer, 45, 5)
    /\ contacts = << Contact(0, 1, 10, 20, 100, 1000), Contact(1, 2, 30, 40, 100, 1000) >>
    /\ script = ChainScript
    /\ harness = [ scenario |-> "chain", batch |-> 1 .. MaxBatch, qos |-> {LOW},
                   offset |-> {50}, size |-> {4096}, unit |-> {0} ]
    /\ InitCommon

\* example_scenarios.py style: N + 2 CRITICAL bundles injected by hand at node 0
\* (destination node 1) with capacity N
CriticalScript(N) ==
    [ k \in 1 .. (N + 2) |-> Manual(k, 0, 1, 0, 100 + k, CRITICAL, 1000, 0) ]

InitCritical ==
    /\ \E buf \in 1 .. MaxBuffer : config = Config(2, buf, 50, 25)
    /\ contacts = << Contact(0, 1, 20, 30, 100, 1000) >>
    /\ script = CriticalScript(config.max_buffer_size)
    /\ harness = [ scenario |-> "critical", batch |-> {1}, qos |-> {LOW},
                   offset |-> {50}, size |-> {4096}, unit |-> {0} ]
    /\ InitCommon

\* example_scenarios.py style: a narrow contact (1 Mbps, open at t = 0), a contact of
\* no capacity met at t = 25, and three
\* bundles of 4096 bytes injected by hand at node 0 for node 1, lowest priority first
NarrowScript ==
    << Manual(1, 0, 1, 0, 100, LOW, 4096, 0), Manual(2, 0, 1, 0, 90, NORMAL, 4096, 0),
       Manual(3, 0, 1, 0, 80, HIGH, 4096, 0) >>

InitNarrow ==
    /\ config = Config(2, MaxBuffer + 1, 50, 25)
    /\ contacts = << Contact(0, 1, 0, 10, 1, 1000), Contact(0, 1, 20, 30, 0, 1000) >>
    /\ script = NarrowScript
    /\ harness = [ scenario |-> "narrow", batch |-> {1}, qos |-> {CRITICAL, LOW},
                   offset |-> {50}, size |-> {4096}, unit |-> {0} ]
    /\ InitCommon

Init == InitPlain \/ InitOverflow \/ InitQoS \/ InitChain \/ InitCritical \/ InitNarrow

Next ==
    \/ HarnessInject
    \/ \E n \in harness.batch : RunStart(n) /\ UNCHANGED rng
    \/ \E source \in Nodes, dest_draw \in Nodes, size \in harness.size,
          qos_level \in harness.qos, offset \in harness.offset :
          GenerateBundle(source, dest_draw, size, qos_level, offset) /\ UNCHANGED rng
    \/ SortContacts
    \/ LoopTest
    \/ BeginContact
    \/ SkipContact
    \/ EndDispatch
    \/ SelectAB
    \/ SelectBA
    \/ \E r \in harness.unit : TransmitAB(r) /\ UNCHANGED rng
    \/ \E r \in harness.unit : TransmitBA(r) /\ UNCHANGED rng
    \/ Gossip
    \/ PeriodicMetrics
    \/ \E n \in harness.batch : PeriodicTraffic(n) /\ UNCHANGED rng
    \/ NoTraffic
    \/ Advance
    \/ Finalize

Spec == Init /\ [][Next]_vars

(***************************************************************************)
(* The random source.  The code draws from the module-level generator of   *)
(* `random`, which DTNSimulator.__init__ seeds: one process-wide stream,   *)
(* shared by every simulator of the process.  The generator is modelled as *)
(* a linear congruential stream; each call of random(), randint(),         *)
(* uniform() or choice() advances it once and reads the new state.         *)
(***************************************************************************)
RngModulus == 65537
RngNext(s) == (75 * s + 74) % RngModulus

\* random.seed(config.random_seed)
RngSeed(seed) == seed % RngModulus

\* random.random() read off the state s, in thousandths
Unit(s) == (s * 1000) \div RngModulus
\* random.randint(lo, hi)
Randint(lo, hi, s) == lo + (Unit(s) * (hi - lo + 1)) \div 1000
\* random.uniform(lo, hi), in whole units
Uniform(lo, hi, s) == lo + ((hi - lo) * Unit(s)) \div 1000
\* random.choice(seq)
Choice(seq, s) == seq[1 + (Unit(s) * Len(seq)) \div 1000]

\* the state of the stream after k further draws
RECURSIVE After(_, _)
After(s, k) == IF k = 0 THEN s ELSE After(RngNext(s), k - 1)

\* _generate_contact_schedule: the windows of one pair (four draws each: start,
\* duration, capacity, error rate); times in seconds, capacity in Mbps, reliability
\* in thousandths
RECURSIVE GenWindows(_, _, _, _, _, _)
GenWindows(cfg, i, j, k, s, acc) ==
    IF k = 0 THEN [ contacts |-> acc, rng |-> s ]
    ELSE LET start_time == Uniform(0, (cfg.simulation_time * 7) \div 10, After(s, 1))
             duration == Uniform(cfg.min_contact_duration, 60, After(s, 2))
             end_time == Min(start_time + duration, cfg.simulation_time)
             capacity == (cfg.channel_capacity * Uniform(500, 1000, After(s, 3))) \div 1000
             error_rate == (cfg.base_error_rate * Uniform(500, 3000, After(s, 4))) \div 1000
             reliability == 1000 - error_rate
         IN  GenWindows(cfg, i, j, k - 1, After(s, 4),
                        Append(acc, [ node_a |-> i, node_b |-> j,
                                      start_time |-> start_time, end_time |-> end_time,
                                      capacity |-> capacity,
                                      reliability |-> reliability ]))

\* the loops over i and over j > i
RECURSIVE GenPairs(_, _, _, _, _)
GenPairs(cfg, i, j, s, acc) ==
    IF i >= cfg.num_nodes THEN [ contacts |-> acc, rng |-> s ]
    ELSE IF j >= cfg.num_nodes THEN GenPairs(cfg, i + 1, i + 2, s, acc)
    ELSE IF Unit(After(s, 1)) < 600
         THEN LET num_contacts == Randint(2, 5, After(s, 2))
                  w == GenWindows(cfg, i, j, num_contacts, After(s, 2), acc)
              IN  GenPairs(cfg, i, j + 1, w.rng, w.contacts)
         ELSE GenPairs(cfg, i, j + 1, After(s, 1), acc)

GenerateContactSchedule(cfg, s) == GenPairs(cfg, 0, 1, s, << >>)

(***************************************************************************)
(* Two simulators with the same configuration in one process.  The         *)
(* simulator being run occupies the state variables; `harness` keeps what  *)
(* the process holds besides: how many simulators were constructed, the    *)
(* contact list of one constructed and not yet run, and the record of the  *)
(* run that has finished.  The simulators are either constructed and run   *)
(* one after the other, or both constructed before either is run.          *)
(***************************************************************************)
MaxSeed == 3

FullConfig(n, buf, horizon, step, seed) ==
    [ num_nodes |-> n, max_buffer_size |-> buf, min_contact_duration |-> 10,
      channel_capacity |-> 100, base_error_rate |-> 10, max_hop_count |-> 10,
      simulation_time |-> horizon, mobility_update_interval |-> step,
      random_seed |-> seed ]

NoRun == [ contacts |-> << >>, injected |-> << >>, final |-> << >> ]

\* the bundles generate_traffic has injected, in order, as they were created
InjectedTraffic ==
    [ u \in 1 .. Len(bundles) |->
        [ bundle_id |-> bundles[u].bundle_id, source_id |-> bundles[u].source_id,
          destination_id |-> bundles[u].destination_id, size |-> bundles[u].size,
          creation_time |-> bundles[u].creation_time, deadline |-> bundles[u].deadline,
          qos_level |-> bundles[u].qos_level ] ]

\* DTNSimulator(config): random.seed(config.random_seed), the nodes, the contact
\* schedule.  The second simulator of a process that constructs both first is kept
\* aside until the first has run.
Construct ==
    /\ pc = "new"
    /\ LET g == GenerateContactSchedule(config, RngSeed(config.random_seed))
       IN  /\ rng' = g.rng
           /\ IF harness.order = "together" /\ harness.built = 1
              THEN /\ harness' = [ harness EXCEPT !.built = 2, !.waiting = g.contacts ]
                   /\ pc' = "setup"
                   /\ UNCHANGED << contacts, nodes >>
              ELSE /\ harness' = [ harness EXCEPT !.built = @ + 1 ]
                   /\ contacts' = g.contacts
                   /\ nodes' = [ i \in Nodes |-> NewNode(i) ]
                   /\ pc' = IF harness.order = "together" THEN "new" ELSE "setup"
    /\ UNCHANGED << config, current_time, bundles, sorted_contacts, contact_idx,
                    metrics_log, gen, xfer, script >>

\* run() of the simulator in hand: num_bundles = random.randint(20, 30)
DetRunStart ==
    /\ RunStart(Randint(20, 30, After(rng, 1)))
    /\ rng' = After(rng, 1)

DetPeriodicTraffic ==
    /\ PeriodicTraffic(Randint(20, 30, After(rng, 1)))
    /\ rng' = After(rng, 1)

\* the five draws of one generated bundle: source, destination, size, QoS, deadline
DetGenerateBundle ==
    /\ GenerateBundle(Randint(0, config.num_nodes - 1, After(rng, 1)),
                      Randint(0, config.num_nodes - 1, After(rng, 2)),
                      Randint(512, 4096, After(rng, 3)),
                      Choice(<< CRITICAL, HIGH, NORMAL, LOW >>, After(rng, 4)),
                      Uniform(50, 300, After(rng, 5)))
    /\ rng' = After(rng, 5)

DetTransmitAB ==
    /\ TransmitAB(Unit(After(rng, 1)))
    /\ rng' = After(rng, 1)

DetTransmitBA ==
    /\ TransmitBA(Unit(After(rng, 1)))
    /\ rng' = After(rng, 1)

\* the first simulator has run to completion: its outcome is kept and the process
\* turns to the second one (constructs it now, or takes the one it constructed)
Handover ==
    /\ pc = "done" /\ harness.finished = 0
    /\ harness' = [ harness EXCEPT !.finished = 1, !.waiting = << >>,
                       !.first = [ contacts |-> contacts, injected |-> InjectedTraffic,
                                   final |-> metrics_log[Len(metrics_log)] ] ]
    /\ IF harness.order = "together"
       THEN /\ contacts' = harness.waiting
            /\ nodes' = [ i \in Nodes |-> NewNode(i) ]
            /\ pc' = "setup"
       ELSE /\ contacts' = << >>
            /\ nodes' = << >>
            /\ pc' = "new"
    /\ current_time' = 0
    /\ bundles' = << >>
    /\ sorted_contacts' = << >>
    /\ contact_idx' = 0
    /\ metrics_log' = << >>
    /\ UNCHANGED << config, gen, xfer, script, rng >>

\* the process before any simulator exists; the generator is in whatever state the
\* process left it
InitDet ==
    /\ \E n \in 2 .. (MaxNodes + 1), seed \in 0 .. MaxSeed :
          config = FullConfig(n, 10 * MaxBuffer, 100, 25, seed)
    /\ \E order \in {"sequential", "together"} :
          harness = [ scenario |-> "two", order |-> order, built |-> 0, finished |-> 0,
                      waiting |-> << >>, first |-> NoRun ]
    /\ rng \in {0, 1}
    /\ current_time = 0
    /\ nodes = << >>
    /\ bundles = << >>
    /\ contacts = << >>
    /\ sorted_contacts = << >>
    /\ contact_idx = 0
    /\ metrics_log = << >>
    /\ pc = "new"
    /\ gen = NoGen
    /\ xfer = NoXfer
    /\ script = << >>

NextDet ==
    \/ Construct
    \/ DetRunStart
    \/ DetGenerateBundle
    \/ SortContacts
    \/ LoopTest
    \/ BeginContact
    \/ SkipContact
    \/ EndDispatch
    \/ SelectAB
    \/ SelectBA
    \/ DetTransmitAB
    \/ DetTransmitBA
    \/ Gossip
    \/ PeriodicMetrics
    \/ DetPeriodicTraffic
    \/ NoTraffic
    \/ Advance
    \/ Finalize
    \/ Handover

SpecDet == InitDet /\ [][NextDet]_vars

(***************************************************************************)
(* The contact schedule over configurations.  SimulationConfig is a plain  *)
(* dataclass whose fields take any value; the process constructs one       *)
(* simulator, which seeds the generator and draws its schedule.            *)
(* base_error_rate is in thousandths.                                      *)
(***************************************************************************)
InitGen ==
    /\ \E n \in 0 .. (MaxNodes + 1), seed \in 0 .. MaxSeed,
          horizon \in {1, 50, 100}, shortest \in {1, 10, 70}, err \in {10, 400, 2500} :
          config = [ FullConfig(n, MaxBuffer, horizon, 25, seed) EXCEPT
                       !.min_contact_duration = shortest, !.base_error_rate = err ]
    /\ harness = [ scenario |-> "schedule", order |-> "sequential", built |-> 0,
                   finished |-> 0, waiting |-> << >>, first |-> NoRun ]
    /\ rng \in {0, 1}
    /\ current_time = 0
    /\ nodes = << >>
    /\ bundles = << >>
    /\ contacts = << >>
    /\ sorted_contacts = << >>
    /\ contact_idx = 0
    /\ metrics_log = << >>
    /\ pc = "new"
    /\ gen = NoGen
    /\ xfer = NoXfer
    /\ script = << >>

NextGen == Construct

SpecGen == InitGen /\ [][NextGen]_vars

(***************************************************************************)
(* Degenerate configurations.  SimulationConfig and Contact are plain      *)
(* dataclasses and DTNSimulator.__init__ checks nothing, so a simulator    *)
(* with no node, with a buffer capacity that is not positive, or with a    *)
(* contact that ends no later than it starts is constructed like any      *)
(* other; run() on it is modelled here.                                    *)
(***************************************************************************)
Degenerate(cfg, cs) ==
    \/ cfg.num_nodes < 1
    \/ cfg.max_buffer_size < 1
    \/ \E i \in 1 .. Len(cs) : cs[i].end_time <= cs[i].start_time

\* generate_traffic with no node: random.randint(0, num_nodes - 1) raises ValueError
\* (empty range), which run() does not catch
TrafficRaises ==
    /\ pc = "traffic" /\ config.num_nodes < 1
    /\ pc' = "error"
    /\ gen' = NoGen
    /\ UNCHANGED << config, current_time, nodes, bundles, contacts, sorted_contacts,
                    contact_idx, metrics_log, xfer, script, harness, rng >>

\* contact lists with a window that ends before or when it starts
DegenerateSchedules(n) ==
    IF n < 2 THEN { }
    ELSE { << Contact(0, 1, 20, 5, 100, 1000), Contact(0, 1, 0, 10, 100, 1000) >>,
           << Contact(0, 1, 0, 0, 100, 1000), Contact(0, 1, 20, 30, 100, 990) >> }

\* a simulator as constructed, on any SimulationConfig
InitDegenerate ==
    /\ \E n \in 0 .. MaxNodes, buf \in 0 .. MaxBuffer : config = Config(n, buf, 50, 25)
    /\ contacts \in { << >> } \cup DegenerateSchedules(config.num_nodes)
    /\ Degenerate(config, contacts)
    /\ script = << >>
    /\ harness = PlainHarness
    /\ InitCommon

\* example_scenarios.py style: the contact list replaced by a hand-made contact with
\* end_time <= start_time, bundles injected by hand
InitDegenerateManual ==
    /\ \E buf \in 0 .. MaxBuffer : config = Config(2, buf, 50, 25)
    /\ contacts = << Contact(0, 1, 20, 10, 100, 1000) >>
    /\ script = OverflowScript(1, LOW)
    /\ harness = [ scenario |-> "overflow", batch |-> {1}, qos |-> {LOW},
                   offset |-> {50}, size |-> {4096}, unit |-> {0} ]
    /\ InitCommon

InitCfg == InitDegenerate \/ InitDegenerateManual

NextCfg == Next \/ TrafficRaises

SpecCfg == InitCfg /\ [][NextCfg]_vars

\* run() is one synchronous call and the process runs its simulators one after the
\* other: the next step is always taken
SpecDetFair == SpecDet /\ WF_vars(NextDet)

(***************************************************************************)
(* Vocabulary of the properties                                            *)
(***************************************************************************)
BundleIds == 1 .. Len(bundles)

\* the bundle objects a node's buffer holds
Buffered(n) == { nodes[n].bundle_buffer[k] : k \in DOMAIN nodes[n].bundle_buffer }
BufferedNext(n) == { nodes'[n].bundle_buffer[k] : k \in DOMAIN nodes'[n].bundle_buffer }

QueueIds(n) == { bundles[u].bundle_id : u \in Range(nodes[n].bundle_queue) }

\* how often node n admitted bundle u (receive_bundle appends to visit_history)
Visits(u, n) == Cardinality({ i \in 1 .. Len(bundles[u].visit_history) :
                              bundles[u].visit_history[i] = n })

\* receive_bundle ran its delivery branch for u
Delivered(u) == Visits(u, bundles[u].destination_id) > 0

\* this step calls nodes[n].receive_bundle(u, t)
CalledReceive(n, u, t) ==
    \/ /\ pc = "transmit" /\ xfer.ab # << >>
       /\ n = CurContact.node_b /\ u = xfer.ab[1] /\ t = current_time
       /\ nodes'[CurContact.node_a].stats.bundles_transmitted =
             nodes[CurContact.node_a].stats.bundles_transmitted + 1
    \/ /\ pc = "transmit" /\ xfer.ab = << >> /\ xfer.ba # << >>
       /\ n = CurContact.node_a /\ u = xfer.ba[1] /\ t = current_time
       /\ nodes'[CurContact.node_b].stats.bundles_transmitted =
             nodes[CurContact.node_b].stats.bundles_transmitted + 1
    \/ /\ pc = "traffic" /\ Len(bundles') = Len(bundles) + 1
       /\ u = Len(bundles') /\ n = bundles'[u].source_id /\ t = current_time
    \/ /\ pc = "setup" /\ script # << >> /\ Len(bundles') = Len(bundles) + 1
       /\ u = Len(bundles') /\ n = script[1].at /\ t = script[1].time

\* C1: in every state, at every node, the ids in the priority queue are the ids in
\* the buffer, and len(bundle_buffer) == len(bundle_queue)
C1_QueueMatchesBuffer ==
    \A n \in Nodes :
        /\ QueueIds(n) = DOMAIN nodes[n].bundle_buffer
        /\ Len(nodes[n].bundle_queue) = Cardinality(DOMAIN nodes[n].bundle_buffer)

\* C2: a delivered bundle is terminal: it is delivered once, is in no buffer and no
\* queue, and is not among the bundles selected for transmission
C2_DeliveredIsTerminal ==
    \A u \in BundleIds :
        Delivered(u) =>
            /\ Visits(u, bundles[u].destination_id) = 1
            /\ bundles[u].visit_history[Len(bundles[u].visit_history)]
                  = bundles[u].destination_id
            /\ \A n \in Nodes : u \notin Buffered(n)
            /\ u \notin Range(xfer.ab) \cup Range(xfer.ba)

\* C3: single-copy forwarding: every bundle is in the buffer of at most one node
C3_SingleCopy ==
    \A u \in BundleIds : Cardinality({ n \in Nodes : u \in Buffered(n) }) <= 1

\* a bundle that was forwarded over a contact sits in the buffer of the peer
C3_Witness ==
    \E u \in BundleIds, n \in Nodes :
        /\ u \in Buffered(n)
        /\ Len(bundles[u].visit_history) >= 2
        /\ bundles[u].source_id # n

\* C4: a receive_bundle call for a bundle whose id is not buffered, at its
\* destination, adds 1 to delivery_count and current_time - creation_time to
\* total_latency, and leaves the bundle out of the buffer
C4_DeliveryStep ==
    \A n \in Nodes, u \in 1 .. Len(bundles'), t \in {current_time} \cup
                               { script[i].time : i \in 1 .. Len(script) } :
        ( /\ CalledReceive(n, u, t)
          /\ bundles'[u].bundle_id \notin DOMAIN nodes[n].bundle_buffer
          /\ bundles'[u].destination_id = n )
        => /\ nodes'[n].stats.delivery_count = nodes[n].stats.delivery_count + 1
           /\ nodes'[n].stats.total_latency =
                 nodes[n].stats.total_latency + (t - bundles'[u].creation_time)
           /\ bundles'[u].bundle_id \notin DOMAIN nodes'[n].bundle_buffer
           /\ u \notin BufferedNext(n)

C4_Delivery == [][C4_DeliveryStep]_vars

\* a contact has delivered a bundle at its destination, some time after its creation
C4_Witness ==
    \E n \in Nodes : /\ nodes[n].stats.delivery_count > 0
                     /\ nodes[n].stats.total_latency > 0

\* C5: no admission removes a CRITICAL bundle from the buffer
C5_EvictionSparesCriticalStep ==
    \A n \in Nodes, u \in 1 .. Len(bundles'), t \in {current_time} \cup
                               { script[i].time : i \in 1 .. Len(script) } :
        CalledReceive(n, u, t) =>
            \A v \in Buffered(n) \ BufferedNext(n) : bundles[v].qos_level # CRITICAL

C5_EvictionSparesCritical == [][C5_EvictionSparesCriticalStep]_vars

\* C9: every snapshot's delivery_ratio is delivered / max(transmitted, 1) of the node
\* counters, and lies in [0, 1]
C9_DeliveryRatio ==
    \A i \in 1 .. Len(metrics_log) :
        /\ metrics_log[i].delivery_ratio =
              << metrics_log[i].total_delivered, Max(metrics_log[i].total_transmitted, 1) >>
        /\ 0 <= metrics_log[i].delivery_ratio[1]
        /\ metrics_log[i].delivery_ratio[1] <= metrics_log[i].delivery_ratio[2]

\* the bundles_dropped counter of a node
Dropped(n) == nodes[n].stats.bundles_dropped

\* the hand-injected bundles that are no longer in node 0's buffer
EvictedAtNode0 == { u \in BundleIds : bundles[u].bundle_id[1] = "manual" } \ Buffered(0)

OverflowInjected == harness.scenario = "overflow" /\ pc = "setup" /\ script = << >>

\* C6 (as claimed): capacity N, N + 1 bundles of one non-CRITICAL tier with
\* increasing deadlines: one eviction, of the bundle with the latest deadline of
\* the N + 1 offered
C6_EvictsLatestOffered ==
    OverflowInjected =>
        /\ Dropped(0) = 1
        /\ EvictedAtNode0 = { config.max_buffer_size + 1 }

\* C6 (amended): one eviction, of the bundle with the latest deadline among the N
\* bundles buffered when the last one arrives; the last one is admitted
C6_EvictsLatestBuffered ==
    OverflowInjected =>
        /\ Dropped(0) = 1
        /\ EvictedAtNode0 = { config.max_buffer_size }
        /\ (config.max_buffer_size + 1) \in Buffered(0)
        /\ Range(nodes[0].bundle_queue) = Buffered(0)

C6_Witness == OverflowInjected /\ config.max_buffer_size >= 2 /\ Dropped(0) = 1

QoSInjected == harness.scenario = "qos" /\ pc = "setup" /\ script = << >>

\* C7: capacity 5 and CRITICAL, HIGH, NORMAL, LOW, LOW, LOW injected at node 0:
\* one bundle is dropped and it is a LOW one
C7_DropsLowFirst ==
    QoSInjected =>
        /\ Dropped(0) = 1
        /\ \A u \in EvictedAtNode0 : bundles[u].qos_level = LOW

\* the hand-injected bundle is the first object created
ChainBundle == Len(ChainScript)

\* the bundle is somewhere in the network: in a queue or being transmitted
InNetwork(u) ==
    \/ \E n \in Nodes : u \in Range(nodes[n].bundle_queue)
    \/ u \in Range(xfer.ab) \cup Range(xfer.ba)

InNetworkNext(u) ==
    \/ \E n \in Nodes : u \in Range(nodes'[n].bundle_queue)
    \/ u \in Range(xfer'.ab) \cup Range(xfer'.ba)

\* this step is an admission of another bundle into the full buffer of the node
\* that holds u
EvictionStepAt(u) ==
    \E n \in Nodes, v \in 1 .. Len(bundles') :
        /\ CalledReceive(n, v, current_time)
        /\ v # u
        /\ u \in Buffered(n)
        /\ Cardinality(DOMAIN nodes[n].bundle_buffer) >= config.max_buffer_size
        /\ nodes'[n].stats.bundles_dropped = nodes[n].stats.bundles_dropped + 1

\* C8 (as claimed): past t = 40 node 2 has counted one delivery of the bundle, and
\* past t = 30 the bundle is not in node 1's buffer
C8_ChainDelivers ==
    harness.scenario = "chain" /\ script = << >> =>
        /\ current_time > 40 => Visits(ChainBundle, 2) = 1
        /\ current_time > 30 => ChainBundle \notin Buffered(1)

\* C8 (amended): the bundle is delivered at node 2 at most once; past t = 40 it has
\* been delivered once or is gone from the network, and it leaves the network only
\* by eviction, when run()'s generated traffic is admitted into the full buffer that
\* holds it; past t = 30 it is not in node 1's buffer
C8_ChainStep ==
    (harness.scenario = "chain" /\ script' = << >>) =>
        /\ Visits(ChainBundle, 2)' <= 1
        /\ current_time' > 40 =>
              (Visits(ChainBundle, 2)' = 1 \/ ~InNetworkNext(ChainBundle))
        /\ current_time' > 30 => ChainBundle \notin BufferedNext(1)
        /\ (script = << >> /\ InNetwork(ChainBundle) /\ ~InNetworkNext(ChainBundle))
              => EvictionStepAt(ChainBundle)

C8_ChainDeliversUnlessEvicted == [][C8_ChainStep]_vars

C8_Witness ==
    /\ harness.scenario = "chain" /\ current_time > 40
    /\ Visits(ChainBundle, 2) = 1
    /\ bundles[ChainBundle].visit_history = << 0, 1, 2 >>
    /\ nodes[2].stats.delivery_count >= 1

\* ---- C10 ----
\* the run in hand is the second simulator's and it has run to completion
BothRunsDone == pc = "done" /\ harness.scenario = "two" /\ harness.finished = 1

SameOutcome ==
    /\ contacts = harness.first.contacts
    /\ InjectedTraffic = harness.first.injected
    /\ metrics_log[Len(metrics_log)] = harness.first.final

\* C10: two simulators constructed with the same SimulationConfig (seed included) and
\* run to completion have the same contact schedule, the same sequence of injected
\* bundles and the same final metrics snapshot.
C10_Deterministic == BothRunsDone => SameOutcome

\* what the code does give: simulators constructed and run one after the other agree,
\* and two constructed before either runs always agree on the contact schedule
C10_SequentialRunsAgree ==
    BothRunsDone => /\ contacts = harness.first.contacts
                    /\ (harness.order = "sequential" => SameOutcome)

C10_SequentialRunsDone ==
    BothRunsDone /\ harness.order = "sequential" /\ bundles # << >> /\ contacts # << >>

\* ---- C11 ----
\* the state in which DTNSimulator(config) leaves a stream of its own
StreamAsConstructed == GenerateContactSchedule(config, RngSeed(config.random_seed)).rng

\* a simulator of the two-simulator process is constructed and about to run
AboutToRun == harness.scenario = "two" /\ pc = "setup"

\* C11: two simulators in one process do not interfere: each one starts its run on the
\* stream its own construction left (as it does when constructed and run alone),
\* whatever the other has been doing, and so the second one's injected traffic and
\* final metrics, with the transmission outcomes they count, are those of the same
\* simulator run alone.
C11_NoInterference ==
    /\ AboutToRun => rng = StreamAsConstructed
    /\ BothRunsDone =>
          /\ InjectedTraffic = harness.first.injected
          /\ metrics_log[Len(metrics_log)].total_transmitted
                = harness.first.final.total_transmitted
          /\ metrics_log[Len(metrics_log)].total_dropped
                = harness.first.final.total_dropped
          /\ metrics_log[Len(metrics_log)] = harness.first.final

\* the first simulator to run does find the stream as its construction left it
C11_FirstRunUndisturbed ==
    (AboutToRun /\ harness.finished = 0) => rng = StreamAsConstructed

\* ---- C12 ----
SameElements(s, t) ==
    /\ Len(s) = Len(t)
    /\ \A c \in Range(s) \cup Range(t) :
          Cardinality({ i \in 1 .. Len(s) : s[i] = c })
             = Cardinality({ i \in 1 .. Len(t) : t[i] = c })

Ascending(cs) ==
    \A i, j \in 1 .. Len(cs) : i < j => cs[i].start_time <= cs[j].start_time

\* the contact under contact_idx has start_time <= current_time
StartReached ==
    /\ contact_idx < Len(sorted_contacts)
    /\ sorted_contacts[contact_idx + 1].start_time <= current_time

\* current_time is the first step time at or after the start of the contact under
\* contact_idx
FirstStepTimeReached ==
    \/ current_time = 0
    \/ sorted_contacts[contact_idx + 1].start_time
          > current_time - config.mobility_update_interval

C12_DispatchStep ==
    \* contacts are taken one by one in the order of the sorted list ...
    /\ contact_idx' # contact_idx =>
          /\ contact_idx' = contact_idx + 1
          /\ pc \in {"dispatch", "transmit"}
    \* ... which is the contact list in ascending start-time order
    /\ pc = "dispatch" => Ascending(sorted_contacts) /\ SameElements(sorted_contacts, contacts)
    \* a contact whose start has arrived is examined now, at the first such step time:
    \* processed iff its window is still open, otherwise passed over for good
    /\ (pc = "dispatch" /\ StartReached) =>
          /\ FirstStepTimeReached
          /\ IF sorted_contacts[contact_idx + 1].end_time > current_time
             THEN pc' = "select_ab" /\ contact_idx' = contact_idx
             ELSE /\ pc' = "dispatch" /\ contact_idx' = contact_idx + 1
                  /\ nodes' = nodes /\ bundles' = bundles
    \* a contact whose start has not arrived is not examined
    /\ (pc = "dispatch" /\ ~StartReached) =>
          pc' = "metrics" /\ contact_idx' = contact_idx
    \* process_contact starts nowhere else, and when it returns the contact is consumed
    /\ (pc' = "select_ab" /\ pc # "select_ab") => pc = "dispatch"
    /\ (pc = "transmit" /\ pc' # "transmit") =>
          pc' = "dispatch" /\ contact_idx' = contact_idx + 1

\* C12: run() examines the contacts in ascending start-time order, each one once, at
\* the first step time t with start_time <= t; process_contact is called for it then
\* iff end_time > t; contact_idx only moves forward, so a contact is processed at most
\* once and a contact passed over because its window had closed is never processed.
C12_ContactDispatch == [][C12_DispatchStep]_vars

\* a run that processed a contact at t = 0 and passed over one whose window had
\* closed before the first step time after its start
C12_Witness ==
    /\ pc = "done" /\ Len(sorted_contacts) = 2 /\ contact_idx = 2
    /\ sorted_contacts[2].start_time > 0
    /\ sorted_contacts[2].end_time <= config.mobility_update_interval
    /\ nodes[0].topology_knowledge # {}

\* ---- C13 ----
\* generate_traffic called from inside the loop is running
InLoopTraffic == pc = "traffic" /\ gen.ret = "advance"

\* process_contact was called at the current step
DispatchedThisStep ==
    \E i \in 1 .. contact_idx :
        /\ sorted_contacts[i].start_time <= current_time
        /\ \/ current_time = 0
           \/ sorted_contacts[i].start_time > current_time - config.mobility_update_interval
        /\ sorted_contacts[i].end_time > current_time

\* the metrics snapshot of the current step is in the log
SnapshotOfStep ==
    \E k \in 1 .. Len(metrics_log) : metrics_log[k].timestamp = current_time

C13_OrderStep ==
    \* contacts first: when process_contact is called the snapshot of the step has not
    \* been taken and no generate_traffic is under way
    /\ (pc = "dispatch" /\ pc' = "select_ab") => (~SnapshotOfStep /\ gen = NoGen)
    \* then the snapshot, once no contact is due any more
    /\ (pc = "metrics" /\ pc' # pc) =>
          /\ ~StartReached
          /\ pc' = "periodic"
          /\ metrics_log' = IF current_time % MetricsPeriod = 0
                            THEN Append(metrics_log, Metrics(nodes, current_time))
                            ELSE metrics_log
    \* then the traffic of the step, after both
    /\ ((pc = "periodic" /\ pc' = "traffic") \/ (InLoopTraffic /\ bundles' # bundles)) =>
          /\ ~StartReached
          /\ current_time % TrafficPeriod = 0
          /\ current_time % MetricsPeriod = 0 => SnapshotOfStep
    \* and nothing else before the clock advances
    /\ (pc = "periodic" /\ pc' # pc) => pc' \in {"traffic", "advance"}
    /\ (InLoopTraffic /\ pc' # pc) => pc' = "advance"
    /\ (pc = "advance" /\ pc' # pc) =>
          /\ pc' = "loop"
          /\ current_time' = current_time + config.mobility_update_interval

InStepLoop ==
    \/ pc \in {"dispatch", "select_ab", "select_ba", "transmit", "metrics", "periodic",
               "advance"}
    \/ InLoopTraffic

\* C14: a configuration with no node or a non-positive buffer capacity, or a contact
\* with end_time <= start_time, is rejected when the simulator is built: run() never
\* executes a step on such a state.
C14_InvalidConfigRejected == Degenerate(config, contacts) => ~InStepLoop

\* ---- C15 ----
\* run() has returned or raised
RunEnded == pc \in {"done", "error"}

\* the loop was left at the first step time at or past the horizon, and the last entry
\* of the metrics timeline is a snapshot taken at that time
EndedAtHorizon ==
    /\ pc = "done"
    /\ current_time >= config.simulation_time
    /\ \/ current_time = 0
       \/ current_time - config.mobility_update_interval < config.simulation_time
    /\ metrics_log # << >>
    /\ metrics_log[Len(metrics_log)] = Metrics(nodes, current_time)
    /\ \A k \in 1 .. (Len(metrics_log) - 1) : metrics_log[k].timestamp < current_time

\* C15: on every configuration with a positive step interval run() ends in one way
\* only, the loop test failing the first time current_time >= simulation_time, and one
\* more snapshot, stamped with the final current_time, is then the last entry of the
\* metrics timeline.
C15_RunEndsAtHorizon == RunEnded => EndedAtHorizon

\* what the code does give: with at least one node run() does not raise and ends at
\* the horizon with its last snapshot ...
C15_RunsWithNodesEndAtHorizon ==
    config.num_nodes >= 1 => (RunEnded => EndedAtHorizon)

\* ... and it does end
C15_RunsWithNodesTerminate == <>BothRunsDone

\* ---- C16 ----
\* the bundle objects generate_traffic created
Generated == { u \in BundleIds : bundles[u].bundle_id[1] = "bundle" }

\* C16: over a whole run no two distinct bundles created by generate_traffic, before
\* the loop or inside it, carry the same bundle_id.
C16_UniqueBundleIds ==
    \A u, v \in Generated : u # v => bundles[u].bundle_id # bundles[v].bundle_id

\* what the code does give: ids repeat only between the two injections made at t = 0
C16_UniqueWithinBatch ==
    \A u, v \in Generated :
        (u # v /\ bundles[u].bundle_id = bundles[v].bundle_id) =>
            bundles[u].creation_time = 0 /\ bundles[v].creation_time = 0

\* ---- C17 ----
\* the receive_bundle calls a step may make: their times
CallTimes == {current_time} \cup { script[i].time : i \in 1 .. Len(script) }

C17_DuplicateStep ==
    \A n \in Nodes, u \in 1 .. Len(bundles'), t \in CallTimes :
        ( /\ CalledReceive(n, u, t)
          /\ bundles'[u].bundle_id \in DOMAIN nodes[n].bundle_buffer )
        => /\ nodes'[n] = nodes[n]
           /\ bundles'[u].visit_history =
                 IF u <= Len(bundles) THEN bundles[u].visit_history ELSE << >>

\* C17: receive_bundle called with a bundle whose id is already in the node's buffer
\* changes nothing: the node's buffer, queue and stats and the bundle's visit_history
\* stay as they were, and nothing is evicted even when the buffer is full.
C17_DuplicateSuppressed == [][C17_DuplicateStep]_vars

\* a bundle was offered to its source, which is full and already buffers another
\* bundle of the same id: it was never admitted anywhere and nothing was evicted
C17_Witness ==
    \E u \in BundleIds :
        LET n == bundles[u].source_id
        IN  /\ bundles[u].visit_history = << >>
            /\ bundles[u].bundle_id \in DOMAIN nodes[n].bundle_buffer
            /\ nodes[n].bundle_buffer[bundles[u].bundle_id] # u
            /\ Cardinality(DOMAIN nodes[n].bundle_buffer) >= config.max_buffer_size
            /\ nodes[n].stats.bundles_dropped = 0

\* ---- C18 ----
\* C18: in every reachable state each node's buffer holds at most max_buffer_size + 1
\* bundles.
C18_BufferBounded ==
    \A n \in DOMAIN nodes :
        Cardinality(DOMAIN nodes[n].bundle_buffer) <= config.max_buffer_size + 1

\* ---- C19, C20 ----
\* the non-CRITICAL bundles in the buffer of n
NonCritical(n) == { v \in Buffered(n) : bundles[v].qos_level # CRITICAL }

\* receive_bundle(u, t) is called at n, u is no duplicate and the buffer is at capacity
AdmissionWhenFull(n, u, t) ==
    /\ CalledReceive(n, u, t)
    /\ bundles'[u].bundle_id \notin DOMAIN nodes[n].bundle_buffer
    /\ Cardinality(DOMAIN nodes[n].bundle_buffer) >= config.max_buffer_size

\* what the admission of u leaves in the buffer of n besides the former occupants
Admitted(n, u) == IF bundles'[u].destination_id = n THEN { } ELSE {u}

C19_EvictionStep ==
    \A n \in Nodes, u \in 1 .. Len(bundles'), t \in CallTimes :
        (AdmissionWhenFull(n, u, t) /\ NonCritical(n) # { }) =>
            \E v \in NonCritical(n) :
                /\ \A w \in NonCritical(n) : bundles[w].deadline <= bundles[v].deadline
                /\ BufferedNext(n) = (Buffered(n) \ {v}) \cup Admitted(n, u)
                /\ DOMAIN nodes'[n].bundle_buffer =
                      (DOMAIN nodes[n].bundle_buffer \ {bundles[v].bundle_id})
                         \cup { bundles'[w].bundle_id : w \in Admitted(n, u) }
                /\ v \notin Range(nodes'[n].bundle_queue)
                /\ nodes'[n].stats.bundles_dropped = nodes[n].stats.bundles_dropped + 1

\* C19: an admission to a full buffer holding a non-CRITICAL bundle evicts the bundle
\* with the latest deadline among the non-CRITICAL bundles of the buffer: exactly that
\* one leaves the buffer and the queue, and bundles_dropped grows by exactly one.
C19_EvictsLatestNonCritical == [][C19_EvictionStep]_vars

C20_AdmissionStep ==
    \A n \in Nodes, u \in 1 .. Len(bundles'), t \in CallTimes :
        (AdmissionWhenFull(n, u, t) /\ NonCritical(n) = { }) =>
            /\ BufferedNext(n) = Buffered(n) \cup Admitted(n, u)
            /\ nodes'[n].stats.bundles_dropped = nodes[n].stats.bundles_dropped
            /\ nodes'[n].stats.bundles_received = nodes[n].stats.bundles_received + 1

\* C20: an admission to a buffer at capacity whose bundles are all CRITICAL evicts
\* nothing and leaves bundles_dropped as it was; the new bundle is admitted (it is in
\* the buffer afterwards unless the node is its destination).
C20_AllCriticalAdmits == [][C20_AdmissionStep]_vars

\* the queue of n holds the buffered bundles and nothing else (no delivered bundle is
\* left in it)
QueueIsBuffer(n) ==
    /\ Range(nodes[n].bundle_queue) = Buffered(n)
    /\ Len(nodes[n].bundle_queue) = Cardinality(Buffered(n))

\* what the code does give: both hold of an admission at a node whose queue holds
\* exactly its buffered bundles
C19_EvictionStepCleanQueue ==
    \A n \in Nodes, u \in 1 .. Len(bundles'), t \in CallTimes :
        (AdmissionWhenFull(n, u, t) /\ NonCritical(n) # { } /\ QueueIsBuffer(n)) =>
            \E v \in NonCritical(n) :
                /\ \A w \in NonCritical(n) : bundles[w].deadline <= bundles[v].deadline
                /\ BufferedNext(n) = (Buffered(n) \ {v}) \cup Admitted(n, u)
                /\ v \notin Range(nodes'[n].bundle_queue)
                /\ nodes'[n].stats.bundles_dropped = nodes[n].stats.bundles_dropped + 1

C19_EvictsLatestFromCleanQueue == [][C19_EvictionStepCleanQueue]_vars

C20_AdmissionStepCleanQueue ==
    \A n \in Nodes, u \in 1 .. Len(bundles'), t \in CallTimes :
        (AdmissionWhenFull(n, u, t) /\ NonCritical(n) = { } /\ QueueIsBuffer(n)) =>
            /\ BufferedNext(n) = Buffered(n) \cup Admitted(n, u)
            /\ nodes'[n].stats.bundles_dropped = nodes[n].stats.bundles_dropped
            /\ nodes'[n].stats.bundles_received = nodes[n].stats.bundles_received + 1

C20_AllCriticalAdmitsWithCleanQueue == [][C20_AdmissionStepCleanQueue]_vars

\* ---- C21 ----
\* the priority key (qos_level, deadline) of u is lower than that of v
KeyLower(u, v) ==
    \/ bundles[u].qos_level < bundles[v].qos_level
    \/ /\ bundles[u].qos_level = bundles[v].qos_level
       /\ bundles[u].deadline < bundles[v].deadline

\* this step is a call of select_bundles_for_transmission by node n, returning sel
SelectionBy(n, sel) ==
    \/ pc = "select_ab" /\ n = CurContact.node_a /\ sel = xfer'.ab
    \/ pc = "select_ba" /\ n = CurContact.node_b /\ sel = xfer'.ba

\* the bundles the call popped from the queue of n
Popped(n) == Range(nodes[n].bundle_queue) \ Range(nodes'[n].bundle_queue)

C21_SelectionStep ==
    \A n \in Nodes :
        \A sel \in {xfer'.ab, xfer'.ba} :
            SelectionBy(n, sel) =>
                /\ \A i, j \in 1 .. Len(sel) : i < j => ~KeyLower(sel[j], sel[i])
                /\ Range(sel) \subseteq Popped(n)
                /\ \A q \in Range(nodes'[n].bundle_queue), b \in Popped(n) :
                      ~KeyLower(q, b)

\* C21: select_bundles_for_transmission returns bundles in non-decreasing
\* (qos_level, deadline) order, and no bundle left in the sender's queue has a key
\* lower than a bundle popped during the call.
C21_PriorityFirst == [][C21_SelectionStep]_vars

\* node a has just selected two bundles of different keys and left one behind
C21_Witness ==
    /\ pc = "select_ba"
    /\ Len(xfer.ab) >= 2
    /\ KeyLower(xfer.ab[1], xfer.ab[2])
    /\ nodes[CurContact.node_a].bundle_queue # << >>

\* ---- C22 ----
\* the budget the first k bundles of sel consume, in units of 1/8000 Mbps
Consumed(sel, k) == SeqSum([ i \in 1 .. k |-> bundles[sel[i]].size ])

\* contact.capacity in the same units
Budget(c) == c.capacity * BandwidthUnits

\* C22 (as claimed): the bundles a node selects for a contact consume no more than
\* contact.capacity in total.
C22_WithinCapacity ==
    /\ pc = "select_ba" => Consumed(xfer.ab, Len(xfer.ab)) <= Budget(CurContact)
    /\ pc = "transmit" => Consumed(xfer.ba, Len(xfer.ba)) <= Budget(CurContact)

C22_BudgetStep ==
    \A n \in Nodes :
        \A sel \in {xfer'.ab, xfer'.ba} :
            SelectionBy(n, sel) =>
                \* every selected bundle was popped while the budget left was positive
                /\ Range(sel) \subseteq Popped(n)
                /\ \A k \in 1 .. Len(sel) : Consumed(sel, k - 1) < Budget(CurContact)
                \* the loop stops before the queue is empty only on a spent budget
                /\ nodes'[n].bundle_queue # << >> =>
                      Consumed(sel, Len(sel)) >= Budget(CurContact)
                \* without capacity nothing is popped
                /\ CurContact.capacity <= 0 => (sel = << >> /\ nodes'[n] = nodes[n])

\* C22 (amended): starting from budget = contact.capacity, a bundle is popped only
\* while the remaining budget is strictly positive and each selected bundle lowers it
\* by size/8/1000: the bundles selected before the last one consume less than
\* contact.capacity, the last one may take the total past it, and bundles stay behind
\* only when the budget is spent; with capacity <= 0 nothing is popped and the sender's
\* buffer and queue are unchanged.
C22_PoppedWhileBudgetPositive == [][C22_BudgetStep]_vars

\* node a selected two bundles for a 1 Mbps contact, consuming more than its capacity,
\* and left one behind
C22_Witness ==
    /\ pc = "select_ba"
    /\ Len(xfer.ab) = 2
    /\ Consumed(xfer.ab, 2) > Budget(CurContact)
    /\ nodes[CurContact.node_a].bundle_queue # << >>

\* a contact without capacity was processed: nothing selected, the queue untouched
C22_NoCapacityReached ==
    /\ pc = "transmit" /\ CurContact.capacity = 0
    /\ xfer = NoXfer
    /\ nodes[CurContact.node_a].bundle_queue # << >>

\* ---- C23 ----
\* this step is one iteration of a transmission loop of process_contact: the selected
\* bundle x goes from sender s to receiver r
TransmitStep(s, r, x) ==
    /\ pc = "transmit"
    /\ \/ /\ xfer.ab # << >> /\ xfer' = [ xfer EXCEPT !.ab = Tail(@) ]
          /\ s = CurContact.node_a /\ r = CurContact.node_b /\ x = xfer.ab[1]
       \/ /\ xfer.ab = << >> /\ xfer.ba # << >> /\ xfer' = [ xfer EXCEPT !.ba = Tail(@) ]
          /\ s = CurContact.node_b /\ r = CurContact.node_a /\ x = xfer.ba[1]

\* the outcomes, as the sender's counters show them
CountedSent(s) ==
    /\ nodes'[s].stats.bundles_transmitted = nodes[s].stats.bundles_transmitted + 1
    /\ nodes'[s].stats.bundles_dropped = nodes[s].stats.bundles_dropped

CountedLost(s) ==
    /\ nodes'[s].stats.bundles_dropped = nodes[s].stats.bundles_dropped + 1
    /\ nodes'[s].stats.bundles_transmitted = nodes[s].stats.bundles_transmitted

\* the peer's receive_bundle(x, current_time) has run
HandedTo(r, x) ==
    IF bundles[x].bundle_id \in DOMAIN nodes[r].bundle_buffer
    THEN nodes'[r] = nodes[r] /\ bundles' = bundles
    ELSE /\ bundles'[x].visit_history = Append(bundles[x].visit_history, r)
         /\ nodes'[r].stats.bundles_received = nodes[r].stats.bundles_received + 1
         /\ x \in Range(nodes'[r].bundle_queue)

\* x will still be transmitted in the contact under way
StillSelectedNext(x) == x \in Range(xfer'.ab) \cup Range(xfer'.ba)

C23_TransmitStep ==
    /\ \A s, r \in Nodes, x \in BundleIds :
          TransmitStep(s, r, x) =>
             \* one outcome, counted once at the sender
             /\ \/ CountedSent(s) /\ HandedTo(r, x)
                \/ /\ CountedLost(s)
                   /\ nodes'[r] = nodes[r] /\ bundles' = bundles
                   \* lost: in no buffer and no queue, and not selected again
                   /\ \A n \in Nodes :
                         x \notin BufferedNext(n) /\ x \notin Range(nodes'[n].bundle_queue)
                   /\ ~StillSelectedNext(x)
             /\ ~(CountedSent(s) /\ CountedLost(s))
             /\ CurContact.reliability >= 1000 => CountedSent(s)
             /\ CurContact.reliability <= 0 => CountedLost(s)
             \* whatever the outcome the sender holds the bundle no more
             /\ x \notin BufferedNext(s) /\ x \notin Range(nodes'[s].bundle_queue)
             /\ x \notin Buffered(s) /\ x \notin Range(nodes[s].bundle_queue)
    \* no retry: a bundle enters a queue only when it is created or when a selected
    \* bundle is transmitted with success
    /\ \A n \in Nodes, x \in BundleIds :
          (x \notin Range(nodes[n].bundle_queue) /\ x \in Range(nodes'[n].bundle_queue)) =>
             \E s \in Nodes : TransmitStep(s, n, x) /\ CountedSent(s)

\* C23: process_contact applies one Bernoulli outcome to each selected bundle: either
\* the sender's bundles_transmitted grows by one and the bundle is handed to the peer's
\* receive_bundle, or the sender's bundles_dropped grows by one; in both cases the
\* sender holds the bundle no more, and a lost bundle is in no node's buffer or queue
\* and is never transmitted again.
C23_OutcomeAccounting == [][C23_TransmitStep]_vars

\* a bundle was lost on a link: it is nowhere, not delivered, and the node it was last
\* at counts a drop that is no eviction (it never admitted more than its capacity)
C23_Witness ==
    \E x \in BundleIds :
        LET h == bundles[x].visit_history
            s == h[Len(h)]
        IN  /\ h # << >>
            /\ s # bundles[x].destination_id
            /\ \A n \in Nodes : x \notin Buffered(n) /\ x \notin Range(nodes[n].bundle_queue)
            /\ x \notin Range(xfer.ab) \cup Range(xfer.ba)
            /\ nodes[s].stats.bundles_dropped >= 1
            /\ nodes[s].stats.bundles_received <= config.max_buffer_size
            /\ pc = "done"

\* ---- C24 ----
\* the bundles node n holds: those of its buffer and those of its priority queue
Held(n) == Buffered(n) \cup Range(nodes[n].bundle_queue)

\* the narrower reading, every selected bundle is in the selecting node's buffer, does
\* not hold: a delivered bundle stays in the queue of its destination and is selected
C24_SelectedFromBuffer ==
    [][\A n \in Nodes : \A sel \in {xfer'.ab, xfer'.ba} :
          SelectionBy(n, sel) => Range(sel) \subseteq Buffered(n)]_vars

C24_ContactStep ==
    \* entering process_contact changes no node and no bundle
    /\ (pc = "dispatch" /\ pc' = "select_ab") =>
          /\ nodes' = nodes /\ bundles' = bundles
          /\ xfer'.ab = << >> /\ xfer'.ba = << >>
    \* a selection delivers nothing: it changes the selecting node only
    /\ \A n \in Nodes : \A sel \in {xfer'.ab, xfer'.ba} :
          SelectionBy(n, sel) =>
             /\ Range(sel) \subseteq Held(n)
             /\ bundles' = bundles
             /\ \A m \in Nodes \ {n} : nodes'[m] = nodes[m]
             /\ nodes'[n].stats = nodes[n].stats
    /\ pc = "select_ab" => pc' = "select_ba" /\ xfer'.ba = << >>
    \* node_b selects while all of node_a's selection is still pending, and holds none of it
    /\ pc = "select_ba" =>
          /\ pc' = "transmit" /\ xfer'.ab = xfer.ab
          /\ Range(xfer.ab) \cap Held(CurContact.node_b) = {}
          /\ Range(xfer'.ab) \cap Range(xfer'.ba) = {}
    \* a transmitted bundle is not among those still to be transmitted either way
    /\ \A s, r \in Nodes, x \in BundleIds :
          TransmitStep(s, r, x) => x \notin Range(xfer'.ab) \cup Range(xfer'.ba)

\* C24: within one process_contact both endpoints select before anything is delivered,
\* so the two selections are disjoint, each is made of bundles the selecting node held
\* before the contact, and no bundle sent from A to B is sent back in the same contact.
C24_SelectBeforeDeliver == [][C24_ContactStep]_vars

\* both endpoints selected bundles in one contact whose link can deliver them
C24_Witness ==
    /\ pc = "transmit"
    /\ xfer.ab # << >> /\ xfer.ba # << >>
    /\ CurContact.reliability > 0

\* ---- C25 ----
\* the hop limit leaves room: it is above the hop_count every bundle was created with
HopLimitAboveInitial ==
    \A u \in BundleIds : config.max_hop_count > bundles[u].hop_count

C25_HopStep ==
    \* no step changes the hop_count of a bundle, and a bundle is created with 0
    /\ \A u \in 1 .. Len(bundles') :
          IF u \in BundleIds THEN bundles'[u].hop_count = bundles[u].hop_count
                             ELSE bundles'[u].hop_count = 0
    \* so a selection discards nothing it pops
    /\ \A n \in Nodes : \A sel \in {xfer'.ab, xfer'.ba} :
          (SelectionBy(n, sel) /\ HopLimitAboveInitial) =>
              /\ Popped(n) = Range(sel)
              /\ Len(sel) = Len(nodes[n].bundle_queue) - Len(nodes'[n].bundle_queue)

\* C25: no operation (admission, eviction, selection, transmission, gossip) changes a
\* bundle's hop_count; hence, max_hop_count being above every initial hop_count, every
\* bundle popped by select_bundles_for_transmission is selected, none is discarded.
C25_HopCountFrozen == [][C25_HopStep]_vars

\* a bundle that has made a hop already (two visits) is selected for a peer that is
\* not its destination, by the hop-limit branch, its hop_count still 0
C25_Witness ==
    /\ pc = "select_ba"
    /\ \E x \in Range(xfer.ab) :
          /\ Len(bundles[x].visit_history) >= 2
          /\ bundles[x].destination_id # CurContact.node_b
          /\ bundles[x].hop_count = 0

\* ---- C26 ----
\* the simulator has been constructed and holds the schedule it generated
ScheduleGenerated == harness.scenario = "schedule" /\ pc = "setup"

\* the number of contacts of the schedule between i and j
ContactsOfPair(i, j) ==
    Cardinality({ k \in 1 .. Len(contacts) :
                     contacts[k].node_a = i /\ contacts[k].node_b = j })

WellFormedTimes(c) ==
    /\ c.node_a < c.node_b
    /\ c.node_a \in Nodes /\ c.node_b \in Nodes
    /\ 0 <= c.start_time /\ 10 * c.start_time <= 7 * config.simulation_time
    /\ c.start_time < c.end_time /\ c.end_time <= config.simulation_time

\* reliability, in thousandths, is a probability
ReliabilityInRange(c) == 0 <= c.reliability /\ c.reliability <= 1000

PairCounts ==
    \A i, j \in Nodes : i < j => ContactsOfPair(i, j) \in {0} \cup (2 .. 5)

\* C26: with positive simulation_time and min_contact_duration every generated contact
\* has node_a < node_b, 0 <= start_time <= 0.7 * simulation_time, start_time < end_time
\* <= simulation_time and a reliability in [0, 1], and each pair of nodes has no
\* contact or from 2 to 5.
C26_ScheduleWellFormed ==
    (ScheduleGenerated /\ config.simulation_time > 0 /\ config.min_contact_duration > 0) =>
        /\ \A k \in 1 .. Len(contacts) :
              WellFormedTimes(contacts[k]) /\ ReliabilityInRange(contacts[k])
        /\ PairCounts

\* what holds of every schedule: all but the range of the reliability
C26_TimesAndCountsWellFormed ==
    (ScheduleGenerated /\ config.simulation_time > 0 /\ config.min_contact_duration > 0) =>
        /\ \A k \in 1 .. Len(contacts) : WellFormedTimes(contacts[k])
        /\ PairCounts

\* the reliability is a probability when base_error_rate is at most one third
C26_ReliableWhenErrorRateLow ==
    (ScheduleGenerated /\ 3 * config.base_error_rate <= 1000) =>
        \A k \in 1 .. Len(contacts) : ReliabilityInRange(contacts[k])

\* a schedule with a window clamped to the horizon and one shorter than
\* min_contact_duration allows was generated
C26_ClampedReached ==
    /\ ScheduleGenerated
    /\ \E k \in 1 .. Len(contacts) :
          /\ contacts[k].end_time = config.simulation_time
          /\ contacts[k].end_time - contacts[k].start_time < config.min_contact_duration

\* ---- C27 ----
BufferWithinQueue(n) == DOMAIN nodes[n].bundle_buffer \subseteq QueueIds(n)

\* the queue entries of n whose id is not a key of its buffer
Lingering(n) ==
    { u \in Range(nodes[n].bundle_queue) :
         bundles[u].bundle_id \notin DOMAIN nodes[n].bundle_buffer }

LingeringAreDelivered(n) == \A u \in Lingering(n) : bundles[u].destination_id = n

\* C27: in every reachable state every bundle id of a node's buffer is in that node's
\* priority queue, and every queue entry whose id is not in the buffer is a bundle
\* whose destination is that node.
C27_BufferWithinQueue ==
    \A n \in Nodes : BufferWithinQueue(n) /\ LingeringAreDelivered(n)

\* the first half alone
C27_BufferIdsQueued == \A n \in Nodes : BufferWithinQueue(n)

\* the second half while bundle ids are unique
C27_LingeringDeliveredWhenIdsUnique ==
    (\A u, v \in BundleIds : bundles[u].bundle_id = bundles[v].bundle_id => u = v) =>
        \A n \in Nodes : LingeringAreDelivered(n)

\* ---- C28 ----
\* run() is between two steps of its loop, or past the loop
StepBoundary == pc \in {"loop", "finalize", "done"}

\* the injected bundles their source node admitted
AdmittedAtSource ==
    { u \in BundleIds : /\ bundles[u].visit_history # << >>
                        /\ bundles[u].visit_history[1] = bundles[u].source_id }

\* buffer occupancy, delivery_count and bundles_dropped, summed over the nodes
Accounted ==
    SumOver([ n \in Nodes |-> Cardinality(DOMAIN nodes[n].bundle_buffer)
                                + nodes[n].stats.delivery_count
                                + nodes[n].stats.bundles_dropped ], Nodes)

\* C28: bundle conservation: at every step boundary of a run whose max_hop_count is
\* above every bundle's hop_count, the number of bundles admitted at their source node
\* equals the sum over the nodes of buffer occupancy, delivery_count and
\* bundles_dropped: each injected bundle is buffered, delivered or dropped, once.
C28_Conservation ==
    (StepBoundary /\ HopLimitAboveInitial) =>
        Cardinality(AdmittedAtSource) = Accounted

\* conservation while no queue holds a bundle that is not buffered and ids are unique
C28_ConservedWithCleanQueues ==
    (/\ StepBoundary
     /\ \A n \in Nodes : nodes[n].stats.delivery_count = 0
     /\ \A u, v \in BundleIds : bundles[u].bundle_id = bundles[v].bundle_id => u = v) =>
        Cardinality(AdmittedAtSource) = Accounted

\* a run ended with deliveries, and the count is conserved
C28_ConservedRunReached ==
    /\ pc = "done"
    /\ \E n \in Nodes : nodes[n].stats.delivery_count > 0
    /\ \E n \in Nodes : nodes[n].stats.bundles_dropped > 0
    /\ Cardinality(AdmittedAtSource) = Accounted

====
